---- MODULE Spec2Model ----
(***************************************************************************)
(* MatrixHeightMap (src/src/matrix-hm.js): the grid of normalized cell     *)
(* values, the mesh and the pivots derived from it, the pointer / keyboard *)
(* handlers and the render frame.                                          *)
(*                                                                         *)
(* Numbers.  Every JavaScript number is held in fixed point, in units of   *)
(* 1/Unit (Unit = 1000): 1.0 is 1000, 0.001 is 1, a pointer position of    *)
(* 500 px is 500000.  The inputs are chosen so that every quotient the     *)
(* code forms is exact at this resolution.  The three non-finite numbers   *)
(* the code can produce (division by maxZ - minZ = 0) are NaN, PosInfinity *)
(* and NegInfinity, with IEEE-754 arithmetic and comparisons.              *)
(***************************************************************************)
EXTENDS Integers, Sequences, FiniteSets, TLC

VARIABLES
    minZ, maxZ,            \* this.minZ, this.maxZ
    mX, mY,                \* this.mX, this.mY
    onMatrixDataChange,    \* this.onMatrixDataChange: TRUE when params.onChange was given
    matrix,                \* this.matrix[y][x] = [value, color, fadedColor]
    vertices,              \* this.objectGeometry.vertices[index].z
    faceVertexColors,      \* this.objectGeometry.faces[f].vertexColors
    vertexPivots,          \* this.vertexPivots[y][x]: handle and its selection object
    zAxisValues,           \* the axisValues drawn on the Z label strip of this.gridLines
    activePivotX, activePivotY,
    mouse,                 \* this.mouse.y (normalized device coordinate)
    lastMouseY,            \* this.lastMouse.y
    mouseDown, cellSelected,
    enableRotate, enablePan,   \* this.cameraControls.enableRotate / enablePan
    listeners,             \* event types window still dispatches to this widget
    \* observation of the last step (not program state)
    lastOp,                \* the last operation: [kind, args]
    thrown,                \* the last operation ended by throwing to its caller
    callbackLog,           \* the onChange invocations the last operation made
    disposed,              \* dispose() has been called
    steps,                 \* operations since construction
    downPivot,             \* <<activePivotX, activePivotY>> at the last primary pointer-down
    referenceY             \* clientY of the last primary pointer-down or, since it, of
                           \* the last pointer-move delivered while the button was down

widget ==
    <<minZ, maxZ, mX, mY, onMatrixDataChange, matrix, vertices, faceVertexColors,
      vertexPivots, zAxisValues, activePivotX, activePivotY, mouse, lastMouseY,
      mouseDown, cellSelected, enableRotate, enablePan, listeners>>

vars ==
    <<widget, lastOp, thrown, callbackLog, disposed, downPivot, referenceY, steps>>

config ==
    <<minZ, maxZ, mX, mY, onMatrixDataChange>>

-----------------------------------------------------------------------------
(* Numbers *)

Unit ==
    10 * 10 * 10

NaN ==
    -2000000001

PosInfinity ==
    2000000000

NegInfinity ==
    -2000000000

NULL ==
    -1

IsNaN(a) ==
    a = NaN

IsFinite(a) ==
    a # NaN /\ a # PosInfinity /\ a # NegInfinity

Sign(a) ==
    IF a > 0 THEN 1 ELSE IF a < 0 THEN -1 ELSE 0

Infinity(s) ==
    IF s >= 0 THEN PosInfinity ELSE NegInfinity

numNeg(a) ==
    IF IsNaN(a) THEN NaN
    ELSE IF a = PosInfinity THEN NegInfinity
    ELSE IF a = NegInfinity THEN PosInfinity
    ELSE -a

numAdd(a, b) ==
    IF IsNaN(a) \/ IsNaN(b) THEN NaN
    ELSE IF ~IsFinite(a) /\ ~IsFinite(b) THEN (IF a = b THEN a ELSE NaN)
    ELSE IF ~IsFinite(a) THEN a
    ELSE IF ~IsFinite(b) THEN b
    ELSE a + b

numSub(a, b) ==
    numAdd(a, numNeg(b))

numMul(a, b) ==
    IF IsNaN(a) \/ IsNaN(b) THEN NaN
    ELSE IF ~IsFinite(a) \/ ~IsFinite(b)
         THEN (IF a = 0 \/ b = 0 THEN NaN ELSE Infinity(Sign(a) * Sign(b)))
    ELSE (a * b) \div Unit

numDiv(a, b) ==
    IF IsNaN(a) \/ IsNaN(b) THEN NaN
    ELSE IF ~IsFinite(a) /\ ~IsFinite(b) THEN NaN
    ELSE IF ~IsFinite(a) THEN Infinity(Sign(a) * (IF b < 0 THEN -1 ELSE 1))
    ELSE IF ~IsFinite(b) THEN 0
    ELSE IF b = 0 THEN (IF a = 0 THEN NaN ELSE Infinity(Sign(a)))
    ELSE (a * Unit) \div b

numLt(a, b) ==
    ~IsNaN(a) /\ ~IsNaN(b) /\ a < b

numGt(a, b) ==
    ~IsNaN(a) /\ ~IsNaN(b) /\ a > b

\* Math.round(v * 100000) / 100000.  v * 100000 is a whole number at this
\* resolution, so Math.round leaves it as it is.
Round5(v) ==
    IF ~IsFinite(v) THEN v
    ELSE LET scaled == v * (100000 \div Unit)
         IN  scaled \div (100000 \div Unit)

-----------------------------------------------------------------------------
(* utils *)

Cols ==
    0 .. mX - 1

Rows ==
    0 .. mY - 1

_getCoordinatesFromIndex(index) ==
    [y |-> index \div mX, x |-> index % mX]

_getIndexFromCoordinates(x, y) ==
    (y * mX) + x

_convertValueForMatrix(value) ==
    numAdd(numMul(value, numSub(maxZ, minZ)), minZ)

\* fault: the offset minZ is not taken off before scaling
_convertValueFromMatrix_NoOffset(value) ==
    numDiv(value, numSub(maxZ, minZ))

_convertValueFromMatrix(value) ==
    numDiv(numSub(value, minZ), numSub(maxZ, minZ))

\* `hsl(${128 - value * 128}, S%, L%)` as <<hue, S, L>>
hsl(value, s, l) ==
    <<numSub(128 * Unit, numMul(value, 128 * Unit)), s, l>>

_setMatrixValueColor(cell) ==
    [value |-> cell.value,
     color |-> hsl(cell.value, 100, 50),
     fadedColor |-> hsl(cell.value, 75, 75)]

-----------------------------------------------------------------------------
(* Matrix *)

\* initialData is a sequence of rows, initialData[y + 1][x + 1] the entry the
\* code reads as initialData[y][x]; undefined data and [] are both <<>>.
HasEntry(initialData, x, y) ==
    /\ y + 1 \in DOMAIN initialData
    /\ x + 1 \in DOMAIN initialData[y + 1]

\* fault: lines 180-185 left out
_initMatrixValue_NoClamp(initialData, x, y) ==
    IF HasEntry(initialData, x, y)
    THEN _convertValueFromMatrix(initialData[y + 1][x + 1])
    ELSE 0

_initMatrixValue(initialData, x, y) ==
    LET value == IF HasEntry(initialData, x, y)
                 THEN _convertValueFromMatrix(initialData[y + 1][x + 1])
                 ELSE 0
        low   == IF numLt(value, 0) THEN 0 ELSE value
    IN  IF numGt(low, Unit) THEN Unit ELSE low

_initMatrix(initialData) ==
    [y \in Rows |-> [x \in Cols |->
        _setMatrixValueColor([value |-> _initMatrixValue(initialData, x, y)])]]

\* fault: lines 202-204 left out
_setValueClamp_NoUpperBound(value) ==
    IF numLt(value, 0) THEN 0 ELSE value

\* lines 197-204: store, then clamp to [0, 1]
_setValueClamp(value) ==
    LET low == IF numLt(value, 0) THEN 0 ELSE value
    IN  IF numGt(low, Unit) THEN Unit ELSE low

\* lines 220-228: the full grid in external values
ExternalData(m) ==
    [y \in Rows |-> [x \in Cols |-> Round5(_convertValueForMatrix(m[y][x].value))]]

\* lines 222-229: `var y` and `var x` of the two loops are the parameters y and
\* x of _setValue (function scope), so at line 229 they hold the values the
\* loops ended on.
CallbackCoordinates(x, y) ==
    [x |-> mX, y |-> mY]

\* line 229: the third argument is computed from the parameter `value`
CallbackValue(value, stored) ==
    Round5(_convertValueForMatrix(value))

\* fault: the callback is invoked outside try / catch
CallbackEscapes_NoCatch(throws) ==
    throws

\* lines 219-231: try { ... } catch(ex) { }: what the callback throws stays inside
CallbackEscapes(throws) ==
    FALSE

\* The body of _setValue on an addressable cell: the new matrix, pivots and
\* mesh vertices, and the callback invocations.
_setValue(x, y, value, throws) ==
    LET stored == _setValueClamp(value)
        at     == CallbackCoordinates(x, y)
    IN  /\ matrix' = [matrix EXCEPT ![y][x] = _setMatrixValueColor([value |-> stored])]
        /\ vertexPivots' = [vertexPivots EXCEPT ![y][x].positionY = stored,
                                                ![y][x].selectionPositionY = stored]
        /\ vertices' = [vertices EXCEPT ![_getIndexFromCoordinates(x, y)] = stored]
        /\ callbackLog' =
              IF onMatrixDataChange
              THEN << [x |-> at.x, y |-> at.y,
                       value |-> CallbackValue(value, stored),
                       data |-> ExternalData(matrix'),
                       threw |-> throws] >>
              ELSE << >>
        /\ thrown' = (onMatrixDataChange /\ CallbackEscapes(throws))

-----------------------------------------------------------------------------
(* Chart *)

\* THREE.PlaneGeometry(w, h, mX - 1, mY - 1): two triangles per quad,
\* (a, b, d) and (b, c, d), over the vertices row * mX + col.
FaceIds ==
    0 .. 2 * (mX - 1) * (mY - 1) - 1

Face(f) ==
    LET q  == f \div 2
        ix == q % (mX - 1)
        iy == q \div (mX - 1)
        a  == ix + mX * iy
        b  == ix + mX * (iy + 1)
        c  == (ix + 1) + mX * (iy + 1)
        d  == (ix + 1) + mX * iy
    IN  IF f % 2 = 0 THEN <<a, b, d>> ELSE <<b, c, d>>

\* A THREE.Color is kept as the colour string it was built from.
_updateVertexColors(m) ==
    [f \in FaceIds |-> [i \in 1..3 |->
        LET coords == _getCoordinatesFromIndex(Face(f)[i])
        IN  m[coords.y][coords.x].color]]

\* lines 272-279
ChartVertices(m) ==
    [index \in 0 .. mX * mY - 1 |->
        LET coords == _getCoordinatesFromIndex(index)
        IN  m[coords.y][coords.x].value]

\* lines 283-311
ChartPivots(m) ==
    [y \in Rows |-> [x \in Cols |->
        [positionY |-> m[y][x].value, opacity |-> 0,
         selectionPositionY |-> m[y][x].value, selectionOpacity |-> 0]]]

\* Math.round: the nearest whole number, halves upwards
MathRound(v) ==
    IF ~IsFinite(v) THEN v
    ELSE ((v + Unit \div 2) \div Unit) * Unit

\* lines 338-348: the axisValues handed to _makeGridLine
_makeZGridLine ==
    LET min        == minZ
        max        == maxZ
        resolution == 10
        increment  == MathRound(numDiv(numSub(max, min), resolution * Unit))
    IN  [i \in 1 .. resolution + 1 |-> numSub(max, numMul((i - 1) * Unit, increment))]

\* lines 257-332; the grid lines are rebuilt at line 327
_computeChart ==
    /\ vertices' = ChartVertices(matrix')
    /\ faceVertexColors' = _updateVertexColors(matrix')
    /\ vertexPivots' = ChartPivots(matrix')
    /\ zAxisValues' = _makeZGridLine

-----------------------------------------------------------------------------
(* Inputs *)

\* params.min, params.max
Ranges ==
    { <<1 * Unit, 3 * Unit>> }

DegenerateRanges ==
    { <<2 * Unit, 2 * Unit>> }

\* axis.x.length, axis.y.length
AxisLengths ==
    { <<2, 2>> }

\* external values below, at the ends of, inside and above [minZ, maxZ]
Values ==
    << minZ - Unit, minZ, (minZ + maxZ) \div 2, maxZ, maxZ + Unit >>

\* a grid of `rows` rows and `cols` columns whose entries run through Values
Grid(rows, cols, a) ==
    [r \in 1..rows |-> [c \in 1..cols |->
        Values[((a + (c - 1) + 2 * (r - 1)) % Len(Values)) + 1]]]

MatchingGrids ==
    { Grid(mY, mX, a) : a \in 0 .. Len(Values) - 1 }

MismatchedGrids ==
    { Grid(s[1], s[2], a) :
        s \in { <<mY - 1, mX>>, <<mY + 1, mX>>, <<mY, mX - 1>>, <<mY, mX + 1>> },
        a \in {3} }

DataInputs ==
    MatchingGrids \cup MismatchedGrids \cup { << >> }

\* params.data: a grid of the configured dimensions
ConstructorData ==
    { Grid(mY, mX, 1) }

ThrowChoices ==
    IF onMatrixDataChange THEN BOOLEAN ELSE { FALSE }

\* setValue(x, y, value) calls, each with whether onChange throws when it is
\* invoked: every cell with a value below min, inside the range, max and above
\* max, and one call one column past the last
SetValueInputs ==
    { <<x, y, Values[i], throws>> :
        x \in Cols, y \in Rows, i \in {1, 3, 4, 5}, throws \in ThrowChoices }
    \cup { <<mX, 0, Values[3], FALSE>> }

\* operations after construction in one behaviour
MaxSteps ==
    3

\* clientY of a pointer event, in pixels
MaxPointerStep ==
    1

ClientYs ==
    { i * 500 * Unit : i \in 0 .. MaxPointerStep }

\* event.button
Buttons ==
    { 0, 2 }

\* what the picking ray hits first: a selection object's (x, y) tag, or nothing
Hits ==
    { <<x, y>> : x \in Cols, y \in Rows } \cup { <<NULL, NULL>> }

EventTypes ==
    { "mousemove", "mousedown", "mouseup", "keydown", "keyup" }

\* canvasContainer.getBoundingClientRect()
ContainerRect ==
    [y |-> 0, height |-> 1000 * Unit]

-----------------------------------------------------------------------------
(* API *)

NoCallback ==
    /\ callbackLog' = << >>
    /\ thrown' = FALSE

setData(matrixData) ==
    /\ lastOp' = [kind |-> "setData", args |-> <<matrixData>>]
    /\ matrix' = _initMatrix(matrixData)
    /\ _computeChart
    /\ NoCallback
    /\ UNCHANGED <<config, activePivotX, activePivotY, mouse, lastMouseY, mouseDown,
                   cellSelected, enableRotate, enablePan, listeners, disposed, downPivot>>

\* line 196: this.matrix[y][x] of a row or a column that does not exist is
\* undefined, and line 196 / 197 throws a TypeError before anything is stored.
Addressable(x, y) ==
    x \in Cols /\ y \in Rows

setValue(x, y, value, throws) ==
    /\ lastOp' = [kind |-> "setValue", args |-> <<x, y, value>>]
    /\ IF Addressable(x, y)
       THEN /\ _setValue(x, y, _convertValueFromMatrix(value), throws)
            /\ faceVertexColors' = IF thrown' THEN faceVertexColors
                                   ELSE _updateVertexColors(matrix')
       ELSE /\ thrown' = TRUE
            /\ callbackLog' = << >>
            /\ UNCHANGED <<matrix, vertexPivots, vertices, faceVertexColors>>
    /\ UNCHANGED <<config, zAxisValues,
                   activePivotX, activePivotY, mouse, lastMouseY, mouseDown,
                   cellSelected, enableRotate, enablePan, listeners, disposed, downPivot>>

\* fault: the mousedown listener is not removed
dispose_MouseDownKept ==
    /\ lastOp' = [kind |-> "dispose", args |-> << >>]
    /\ listeners' = listeners \ (EventTypes \ {"mousedown"})
    /\ disposed' = TRUE
    /\ callbackLog' = << >>
    /\ thrown' = FALSE
    /\ UNCHANGED <<config, zAxisValues,
                   matrix, vertices, faceVertexColors, vertexPivots,
                   activePivotX, activePivotY, mouse, lastMouseY, mouseDown,
                   cellSelected, enableRotate, enablePan, downPivot>>

dispose ==
    /\ lastOp' = [kind |-> "dispose", args |-> << >>]
    /\ listeners' = listeners \ EventTypes
    /\ disposed' = TRUE
    /\ NoCallback
    /\ UNCHANGED <<config, zAxisValues,
                   matrix, vertices, faceVertexColors, vertexPivots,
                   activePivotX, activePivotY, mouse, lastMouseY, mouseDown,
                   cellSelected, enableRotate, enablePan, downPivot>>

-----------------------------------------------------------------------------
(* Core *)

\* fault: the hit test is not skipped while the button is down
_animateHitTest_NoDragGuard(hit) ==
    /\ activePivotX' = hit[1]
    /\ activePivotY' = hit[2]
    /\ vertexPivots' =
         [y \in Rows |-> [x \in Cols |->
            [vertexPivots[y][x] EXCEPT
               !.opacity = IF hit = <<x, y>> THEN 1 ELSE 0,
               !.selectionOpacity = 0]]]

\* fault: lines 570-572 left out, the other handles keep their opacity
_animateHitTest_NoClear(hit) ==
    IF ~mouseDown /\ mX * mY > 0
    THEN /\ activePivotX' = hit[1]
         /\ activePivotY' = hit[2]
         /\ vertexPivots' =
              [y \in Rows |-> [x \in Cols |->
                 [vertexPivots[y][x] EXCEPT
                    !.opacity = IF hit = <<x, y>> THEN 1 ELSE @]]]
    ELSE UNCHANGED <<activePivotX, activePivotY, vertexPivots>>

\* lines 564-585 with `hit` the first intersection
_animateHitTest(hit) ==
    IF ~mouseDown /\ mX * mY > 0
    THEN /\ activePivotX' = hit[1]
         /\ activePivotY' = hit[2]
         /\ vertexPivots' =
              [y \in Rows |-> [x \in Cols |->
                 [vertexPivots[y][x] EXCEPT
                    !.opacity = IF hit = <<x, y>> THEN 1 ELSE 0,
                    !.selectionOpacity = 0]]]
    ELSE UNCHANGED <<activePivotX, activePivotY, vertexPivots>>

_animate(hit) ==
    /\ lastOp' = [kind |-> "frame", args |-> << >>]
    /\ _animateHitTest(hit)
    /\ NoCallback
    /\ UNCHANGED <<config, zAxisValues,
                   matrix, vertices, faceVertexColors, mouse, lastMouseY,
                   mouseDown, cellSelected, enableRotate, enablePan, listeners,
                   disposed, downPivot>>

\* line 598
NormalizedDeviceY(clientY) ==
    numAdd(numMul(numNeg(numDiv(numSub(clientY, ContainerRect.y), ContainerRect.height)),
                  2 * Unit),
           1 * Unit)

PivotActive ==
    /\ activePivotX # NULL /\ activePivotY # NULL
    /\ activePivotX >= 0 /\ activePivotX < mX
    /\ activePivotY >= 0 /\ activePivotY < mY

\* 0.001 at line 605
Sensitivity ==
    1

\* fault: line 608 left out, the reference stays where the pointer went down
_onMouseMoveEvent_NoReferenceUpdate(clientY, throws) ==
    /\ mouse' = NormalizedDeviceY(clientY)
    /\ IF PivotActive /\ mouseDown
       THEN LET movementY == numSub(clientY, lastMouseY)
                newValue  == numSub(vertexPivots[activePivotY][activePivotX].positionY,
                                    numMul(movementY, Sensitivity))
            IN  /\ _setValue(activePivotX, activePivotY, newValue, throws)
                /\ UNCHANGED lastMouseY
                /\ IF thrown'
                   THEN UNCHANGED cellSelected
                   ELSE cellSelected' = TRUE
       ELSE /\ NoCallback
            /\ UNCHANGED <<matrix, vertexPivots, vertices, lastMouseY, cellSelected>>
    /\ UNCHANGED <<config, zAxisValues,
                   faceVertexColors, activePivotX, activePivotY, mouseDown,
                   enableRotate, enablePan, listeners, downPivot>>

_onMouseMoveEvent(clientY, throws) ==
    /\ mouse' = NormalizedDeviceY(clientY)
    /\ IF PivotActive /\ mouseDown
       THEN LET movementY == numSub(clientY, lastMouseY)
                newValue  == numSub(vertexPivots[activePivotY][activePivotX].positionY,
                                    numMul(movementY, Sensitivity))
            IN  /\ _setValue(activePivotX, activePivotY, newValue, throws)
                /\ IF thrown'
                   THEN UNCHANGED <<lastMouseY, cellSelected>>
                   ELSE lastMouseY' = clientY /\ cellSelected' = TRUE
       ELSE /\ NoCallback
            /\ UNCHANGED <<matrix, vertexPivots, vertices, lastMouseY, cellSelected>>
    /\ UNCHANGED <<config, zAxisValues,
                   faceVertexColors, activePivotX, activePivotY, mouseDown,
                   enableRotate, enablePan, listeners, downPivot>>

_onMouseDownEvent(button, clientY) ==
    /\ IF button = 0
       THEN /\ mouseDown' = TRUE
            /\ cellSelected' = FALSE
            /\ lastMouseY' = clientY
            /\ downPivot' = <<activePivotX, activePivotY>>
       ELSE UNCHANGED <<mouseDown, cellSelected, lastMouseY, downPivot>>
    /\ NoCallback
    /\ UNCHANGED <<config, zAxisValues,
                   matrix, vertices, faceVertexColors, vertexPivots,
                   activePivotX, activePivotY, mouse, enableRotate, enablePan, listeners>>

\* fault: line 638 left out, pointer-up does not refresh the corner colours
_onMouseUpEvent_NoResync ==
    /\ mouseDown' = FALSE
    /\ NoCallback
    /\ UNCHANGED <<config, zAxisValues,
                   matrix, vertices, faceVertexColors, vertexPivots,
                   activePivotX, activePivotY, mouse, lastMouseY, cellSelected,
                   enableRotate, enablePan, listeners, downPivot>>

_onMouseUpEvent ==
    /\ mouseDown' = FALSE
    /\ faceVertexColors' = IF activePivotX # NULL /\ activePivotY # NULL
                           THEN _updateVertexColors(matrix)
                           ELSE faceVertexColors
    /\ NoCallback
    /\ UNCHANGED <<config, zAxisValues,
                   matrix, vertices, vertexPivots, activePivotX, activePivotY,
                   mouse, lastMouseY, cellSelected, enableRotate, enablePan, listeners,
                   downPivot>>

_onKeyDownEvent(ctrlKey) ==
    /\ IF ctrlKey
       THEN enableRotate' = FALSE /\ enablePan' = TRUE
       ELSE UNCHANGED <<enableRotate, enablePan>>
    /\ NoCallback
    /\ UNCHANGED <<config, zAxisValues,
                   matrix, vertices, faceVertexColors, vertexPivots,
                   activePivotX, activePivotY, mouse, lastMouseY, mouseDown,
                   cellSelected, listeners, downPivot>>

_onKeyUpEvent(ctrlKey) ==
    /\ IF ~ctrlKey
       THEN enableRotate' = TRUE /\ enablePan' = FALSE
       ELSE UNCHANGED <<enableRotate, enablePan>>
    /\ NoCallback
    /\ UNCHANGED <<config, zAxisValues,
                   matrix, vertices, faceVertexColors, vertexPivots,
                   activePivotX, activePivotY, mouse, lastMouseY, mouseDown,
                   cellSelected, listeners, downPivot>>

\* window delivers an event of `type` to the handler registered for it, if any
Dispatch(type, args, handler) ==
    /\ lastOp' = [kind |-> type, args |-> args]
    /\ UNCHANGED disposed
    /\ IF type \in listeners
       THEN /\ handler
            /\ referenceY' = IF type = "mousedown" /\ args[1] = 0 THEN args[2]
                              ELSE IF type = "mousemove" /\ mouseDown THEN args[1]
                              ELSE referenceY
       ELSE /\ NoCallback
            /\ UNCHANGED <<widget, downPivot, referenceY>>

\* one more operation of the host page, the user or the animation-frame
\* scheduler, while the behaviour has operations left
Counted ==
    /\ steps < MaxSteps
    /\ steps' = steps + 1

MouseMove ==
    /\ Counted
    /\ \E clientY \in ClientYs, throws \in ThrowChoices :
          Dispatch("mousemove", <<clientY>>, _onMouseMoveEvent(clientY, throws))

MouseDown ==
    /\ Counted
    /\ \E button \in Buttons, clientY \in ClientYs :
          Dispatch("mousedown", <<button, clientY>>, _onMouseDownEvent(button, clientY))

MouseUp ==
    /\ Counted
    /\ Dispatch("mouseup", << >>, _onMouseUpEvent)

KeyDown ==
    /\ Counted
    /\ \E ctrlKey \in BOOLEAN :
          Dispatch("keydown", <<ctrlKey>>, _onKeyDownEvent(ctrlKey))

KeyUp ==
    /\ Counted
    /\ \E ctrlKey \in BOOLEAN :
          Dispatch("keyup", <<ctrlKey>>, _onKeyUpEvent(ctrlKey))

Frame ==
    /\ Counted
    /\ \E hit \in Hits : _animate(hit)
    /\ UNCHANGED referenceY

SetData ==
    /\ Counted
    /\ \E matrixData \in DataInputs : setData(matrixData)
    /\ UNCHANGED referenceY

SetValue ==
    /\ Counted
    /\ \E call \in SetValueInputs : setValue(call[1], call[2], call[3], call[4])
    /\ UNCHANGED referenceY

Dispose ==
    /\ Counted
    /\ dispose
    /\ UNCHANGED referenceY

-----------------------------------------------------------------------------
(* MatrixHeightMap(params): the state the constructor leaves *)

\* lines 76-77, 112-114: the constructor runs one frame, with the camera at
\* (d, d, d), d = CAMERA_DEFAULT_DISTANCE, looking at the origin and the pointer
\* at the centre of the view, so the picking ray is the diagonal x = y = z.
\* A selection sphere (radius chartSizeX / 50) is hit when its centre
\* ((xIncrement * x) - chartSizeXHalf, value, (yIncrement * y) - chartSizeYHalf)
\* lies on the ray; every other centre this model can produce is farther than
\* the radius from it.  The first intersection is the one nearest the camera.
PivotPlanar(i, n) ==
    numSub(numMul(numDiv(2 * Unit, (n - 1) * Unit), i * Unit), 1 * Unit)

OnDiagonal(m, x, y) ==
    /\ PivotPlanar(x, mX) = m[y][x].value
    /\ PivotPlanar(y, mY) = m[y][x].value

FirstFrameHit(m) ==
    LET on == { h \in Hits : h # <<NULL, NULL>> /\ OnDiagonal(m, h[1], h[2]) }
    IN  IF on = {} THEN <<NULL, NULL>>
        ELSE CHOOSE h \in on :
                \A g \in on : m[g[2]][g[1]].value <= m[h[2]][h[1]].value

Constructed(data, onChange) ==
    /\ onMatrixDataChange = onChange
    /\ matrix = _initMatrix(data)
    /\ vertices = ChartVertices(matrix)
    /\ faceVertexColors = _updateVertexColors(matrix)
    /\ zAxisValues = _makeZGridLine
    /\ activePivotX = FirstFrameHit(matrix)[1]
    /\ activePivotY = FirstFrameHit(matrix)[2]
    /\ vertexPivots = [y \in Rows |-> [x \in Cols |->
          [ChartPivots(matrix)[y][x] EXCEPT
              !.opacity = IF FirstFrameHit(matrix) = <<x, y>> THEN 1 ELSE 0]]]
    /\ mouse = 0
    /\ lastMouseY = 0
    /\ mouseDown = FALSE
    /\ cellSelected = FALSE
    /\ enableRotate = TRUE
    /\ enablePan = FALSE
    /\ listeners = EventTypes
    /\ lastOp = [kind |-> "construct", args |-> <<data>>]
    /\ thrown = FALSE
    /\ callbackLog = << >>
    /\ disposed = FALSE
    /\ downPivot = <<NULL, NULL>>
    /\ referenceY = NULL
    /\ steps = 0

Configured(ranges) ==
    \E range \in ranges, axis \in AxisLengths :
        /\ minZ = range[1]
        /\ maxZ = range[2]
        /\ mX = axis[1]
        /\ mY = axis[2]

Init ==
    /\ Configured(Ranges)
    /\ \E data \in ConstructorData, onChange \in BOOLEAN : Constructed(data, onChange)

Next ==
    \/ SetData
    \/ SetValue
    \/ Dispose
    \/ Frame
    \/ MouseMove
    \/ MouseDown
    \/ MouseUp
    \/ KeyDown
    \/ KeyUp

Spec ==
    Init /\ [][Next]_vars

\* the same widget constructed with params.min = params.max
InitDegenerate ==
    /\ Configured(DegenerateRanges)
    /\ \E data \in ConstructorData, onChange \in BOOLEAN : Constructed(data, onChange)

SpecDegenerate ==
    InitDegenerate /\ [][Next]_vars

-----------------------------------------------------------------------------
(* Properties *)

Cells ==
    { <<x, y>> : x \in Cols, y \in Rows }

\* the cell the last operation addressed, when it was a setValue on a cell of
\* the grid
SetValueStep ==
    /\ lastOp.kind = "setValue"
    /\ <<lastOp.args[1], lastOp.args[2]>> \in Cells

\* the last operation was a pointer-move that the widget took as a drag step
DragStep ==
    /\ lastOp.kind = "mousemove"
    /\ "mousemove" \in listeners
    /\ mouseDown
    /\ <<activePivotX, activePivotY>> \in Cells

ChangedCell ==
    IF lastOp.kind = "setValue"
    THEN <<lastOp.args[1], lastOp.args[2]>>
    ELSE <<activePivotX, activePivotY>>

\* an external value brought into [minZ, maxZ]
ClampExternal(v) ==
    IF v < minZ THEN minZ ELSE IF v > maxZ THEN maxZ ELSE v

\* C1: with min < max, every cell's normalized value v satisfies 0 <= v <= 1
\* after construction and after any setData, setValue, pointer or frame step.
C1_NormalizedValueClamped ==
    minZ < maxZ =>
        \A c \in Cells :
            LET v == matrix[c[2]][c[1]].value
            IN  IsFinite(v) /\ 0 <= v /\ v <= Unit

\* a drag step asked for more than 1 and the cell holds exactly 1
C1_Witness ==
    /\ minZ < maxZ
    /\ DragStep
    /\ Len(callbackLog) = 1
    /\ callbackLog[1].value > maxZ
    /\ matrix[activePivotY][activePivotX].value = Unit

\* C2: with onChange registered, every successful cell change (setValue on a
\* cell of the grid, or a drag step) invokes the callback exactly once, with the
\* changed cell's col and row as its first two arguments.
C2_CallbackNamesChangedCell ==
    (onMatrixDataChange /\ minZ < maxZ /\ (SetValueStep \/ DragStep)) =>
        /\ Len(callbackLog) = 1
        /\ callbackLog[1].x = ChangedCell[1]
        /\ callbackLog[1].y = ChangedCell[2]

\* C3: the third argument of every onChange invocation is the value committed
\* to the changed cell, the changed cell's entry in the fourth argument.
C3_CallbackValueIsCommitted ==
    (onMatrixDataChange /\ minZ < maxZ /\ (SetValueStep \/ DragStep)) =>
        \A i \in DOMAIN callbackLog :
            callbackLog[i].value = callbackLog[i].data[ChangedCell[2]][ChangedCell[1]]

\* the row and column counts of a setData argument agree with the axis lengths
DimensionsMatch(data) ==
    /\ Len(data) = mY
    /\ \A r \in DOMAIN data : Len(data[r]) = mX

\* C4: setData with a grid whose row or column count differs from the axis
\* lengths throws and leaves every cell as it was.
C4_MismatchedSetDataRejected ==
    [][ (lastOp'.kind = "setData" /\ ~DimensionsMatch(lastOp'.args[1])) =>
            (thrown' /\ matrix' = matrix) ]_vars

\* C5: when the onChange callback throws during setValue or a drag step,
\* nothing is thrown to the caller, the addressed cell holds the new clamped
\* value with its colour, pivot and mesh vertex, the caller's work after the
\* change is done (setValue's colour resync, the drag's reference position),
\* and no other part of the widget differs from before.
C5_ThrowingCallbackSwallowed ==
    [][ (Len(callbackLog') = 1 /\ callbackLog'[1].threw /\ minZ < maxZ) =>
          LET x == IF lastOp'.kind = "setValue" THEN lastOp'.args[1] ELSE activePivotX
              y == IF lastOp'.kind = "setValue" THEN lastOp'.args[2] ELSE activePivotY
              asked ==
                  IF lastOp'.kind = "setValue"
                  THEN ((lastOp'.args[3] - minZ) * Unit) \div (maxZ - minZ)
                  ELSE vertexPivots[y][x].positionY
                           - ((lastOp'.args[1] - lastMouseY) \div Unit)
              v == IF asked < 0 THEN 0 ELSE IF asked > Unit THEN Unit ELSE asked
          IN  /\ ~thrown'
              /\ matrix'[y][x].value = v
              /\ matrix'[y][x].color = <<128 * Unit - 128 * v, 100, 50>>
              /\ vertexPivots'[y][x].positionY = v
              /\ vertexPivots'[y][x].selectionPositionY = v
              /\ vertices'[y * mX + x] = v
              /\ \A c \in Cells \ {<<x, y>>} :
                    /\ matrix'[c[2]][c[1]] = matrix[c[2]][c[1]]
                    /\ vertexPivots'[c[2]][c[1]] = vertexPivots[c[2]][c[1]]
                    /\ vertices'[c[2] * mX + c[1]] = vertices[c[2] * mX + c[1]]
              /\ IF lastOp'.kind = "setValue"
                 THEN /\ \A f \in FaceIds : \A i \in 1..3 :
                            faceVertexColors'[f][i] =
                                matrix'[Face(f)[i] \div mX][Face(f)[i] % mX].color
                      /\ UNCHANGED <<lastMouseY, cellSelected, mouse>>
                 ELSE /\ lastMouseY' = lastOp'.args[1]
                      /\ cellSelected'
                      /\ UNCHANGED faceVertexColors
              /\ UNCHANGED <<config, zAxisValues,
                   activePivotX, activePivotY, mouseDown,
                             enableRotate, enablePan, listeners>> ]_vars

\* onChange threw during a setValue whose value was above max
C5_Witness ==
    /\ SetValueStep
    /\ Len(callbackLog) = 1
    /\ callbackLog[1].threw
    /\ lastOp.args[3] > maxZ
    /\ matrix[lastOp.args[2]][lastOp.args[1]].value = Unit

\* C6 as stated: after setData(g), g of the configured dimensions, the full
\* external grid equals g cell for cell.
C6_SetDataRoundTrip ==
    (lastOp.kind = "setData" /\ minZ < maxZ /\ DimensionsMatch(lastOp.args[1])) =>
        \A c \in Cells :
            ExternalData(matrix)[c[2]][c[1]] = lastOp.args[1][c[2] + 1][c[1] + 1]

\* C6 amended: after setData(g), g of the configured dimensions, each cell of
\* the full external grid equals the entry of g brought into [min, max]: the
\* entry itself when min <= entry <= max, min when below, max when above.
C6_SetDataRoundTripClamped ==
    (lastOp.kind = "setData" /\ minZ < maxZ /\ DimensionsMatch(lastOp.args[1])) =>
        \A c \in Cells :
            ExternalData(matrix)[c[2]][c[1]] =
                ClampExternal(lastOp.args[1][c[2] + 1][c[1] + 1])

\* setData with a grid holding an entry strictly inside the range, one below
\* and one above it
C6_Witness ==
    /\ lastOp.kind = "setData"
    /\ minZ < maxZ
    /\ DimensionsMatch(lastOp.args[1])
    /\ \E c \in Cells : LET e == lastOp.args[1][c[2] + 1][c[1] + 1]
                        IN  minZ < e /\ e < maxZ
    /\ \E c \in Cells : lastOp.args[1][c[2] + 1][c[1] + 1] < minZ
    /\ \E c \in Cells : lastOp.args[1][c[2] + 1][c[1] + 1] > maxZ

\* C7: after setValue(col, row, v) on a cell of the grid, with min < max, the
\* cell's external value is v when min <= v <= max, min when v < min, max when
\* v > max, and every other cell is as it was.
C7_SetValueStoresClamped ==
    [][ (lastOp'.kind = "setValue" /\ minZ < maxZ
            /\ <<lastOp'.args[1], lastOp'.args[2]>> \in Cells) =>
          LET x == lastOp'.args[1]
              y == lastOp'.args[2]
          IN  /\ ExternalData(matrix')[y][x] = ClampExternal(lastOp'.args[3])
              /\ \A c \in Cells \ {<<x, y>>} :
                    matrix'[c[2]][c[1]] = matrix[c[2]][c[1]] ]_vars

\* setValue above max on a cell that held another value: the cell reads max
C7_Witness ==
    /\ SetValueStep
    /\ minZ < maxZ
    /\ lastOp.args[3] > maxZ
    /\ ExternalData(matrix)[lastOp.args[2]][lastOp.args[1]] = maxZ
    /\ \E c \in Cells : ExternalData(matrix)[c[2]][c[1]] # maxZ

\* C8: once dispose() has run, a pointer or key event changes nothing of the
\* widget (cell values, pointer-down flag, recorded pointer positions, camera
\* flags included) and invokes no callback.
C8_NoEventAfterDispose ==
    [][ (disposed /\ lastOp'.kind \in EventTypes) =>
            (UNCHANGED widget /\ callbackLog' = << >>) ]_vars

\* a pointer-move arrives after dispose() while the button is down on an
\* active pivot, at another height than the recorded one
C8_Witness ==
    /\ disposed
    /\ lastOp.kind = "mousemove"
    /\ mouseDown
    /\ <<activePivotX, activePivotY>> \in Cells
    /\ lastOp.args[1] # lastMouseY

\* C9: with min = max no cell ever holds a non-numeric or out-of-[0, 1]
\* normalized value.
C9_DegenerateRangeGuarded ==
    minZ = maxZ =>
        \A c \in Cells :
            LET v == matrix[c[2]][c[1]].value
            IN  IsFinite(v) /\ 0 <= v /\ v <= Unit

HandleOpacity ==
    [c \in Cells |-> vertexPivots[c[2]][c[1]].opacity]

\* C10: while the primary button is down no frame changes the active pivot or
\* a handle's opacity, the active pivot is the one of the pointer-down, and a
\* pointer-move changes no cell but that one (none when no pivot was active).
C10_NoHitTestWhileDragging ==
    [][ /\ (mouseDown /\ lastOp'.kind = "frame") =>
              (UNCHANGED <<activePivotX, activePivotY>> /\ HandleOpacity' = HandleOpacity)
        /\ mouseDown' => <<activePivotX', activePivotY'>> = downPivot'
        /\ lastOp'.kind = "mousemove" =>
              \A c \in Cells \ {downPivot} : matrix'[c[2]][c[1]] = matrix[c[2]][c[1]] ]_vars

\* a frame runs while a pivot is being dragged, after a drag step
C10_Witness ==
    /\ lastOp.kind = "frame"
    /\ mouseDown
    /\ cellSelected
    /\ downPivot \in Cells
    /\ vertexPivots[downPivot[2]][downPivot[1]].opacity = 1

\* a normalized value brought into [0, 1]
Clamp01(v) ==
    IF v < 0 THEN 0 ELSE IF v > Unit THEN Unit ELSE v

\* C11: a pointer-move at Y delivered while the button is down and a pivot is
\* active sets the active cell to clamp(old - 0.001 * (Y - Yref), 0, 1), Yref
\* the position of the drag's previous pointer-move (of the pointer-down for
\* the first), and records Y as the new reference; a pointer-move with the
\* button up or no pivot active changes no cell value.
C11_DragDeltaIncremental ==
    [][ (lastOp'.kind = "mousemove" /\ "mousemove" \in listeners) =>
           LET Y == lastOp'.args[1]
           IN  IF mouseDown /\ <<activePivotX, activePivotY>> \in Cells
               THEN /\ matrix'[activePivotY][activePivotX].value =
                          Clamp01(matrix[activePivotY][activePivotX].value
                                    - ((Y - referenceY) * Sensitivity) \div Unit)
                    /\ lastMouseY' = Y
                    /\ \A c \in Cells \ {<<activePivotX, activePivotY>>} :
                          matrix'[c[2]][c[1]].value = matrix[c[2]][c[1]].value
               ELSE \A c \in Cells :
                       matrix'[c[2]][c[1]].value = matrix[c[2]][c[1]].value ]_vars

\* the third operation is a drag step, it follows the pointer-down and one
\* other operation, and it leaves the dragged cell strictly inside (0, 1)
C11_Witness ==
    /\ DragStep
    /\ steps = MaxSteps
    /\ cellSelected
    /\ referenceY = lastOp.args[1]
    /\ lastMouseY = referenceY
    /\ matrix[activePivotY][activePivotX].value = Unit \div 2

OpaqueHandles ==
    { c \in Cells : vertexPivots[c[2]][c[1]].opacity # 0 }

\* C12: in every reachable state at most one pivot's visible handle is opaque,
\* an opaque handle is the one of the active pivot (activePivotX,
\* activePivotY), no handle is opaque when the active coordinates are null,
\* and no hit-volume is ever opaque.
C12_OnlyActiveHandleOpaque ==
    /\ Cardinality(OpaqueHandles) <= 1
    /\ \A c \in OpaqueHandles : c = <<activePivotX, activePivotY>>
    /\ (activePivotX = NULL \/ activePivotY = NULL) => OpaqueHandles = {}
    /\ \A c \in Cells : vertexPivots[c[2]][c[1]].selectionOpacity = 0

\* a frame moved the active pivot from the cell the first frame hit to another
\* cell, whose handle is now the opaque one
C12_Witness ==
    /\ lastOp.kind = "frame"
    /\ <<activePivotX, activePivotY>> = <<0, 0>>
    /\ vertexPivots[0][0].opacity = 1
    /\ vertexPivots[mY - 1][mX - 1].opacity = 0

\* the vertex row * mX + col and both objects of the cell's pivot are at the
\* cell's normalized value
ElevationInSync ==
    \A c \in Cells :
        LET value == matrix[c[2]][c[1]].value
        IN  /\ vertices[c[2] * mX + c[1]] = value
            /\ vertexPivots[c[2]][c[1]].positionY = value
            /\ vertexPivots[c[2]][c[1]].selectionPositionY = value

\* every triangle corner on the vertex row * mX + col has the cell's colour
ColoursInSync ==
    \A c \in Cells : \A f \in FaceIds : \A i \in 1..3 :
        Face(f)[i] = c[2] * mX + c[1] =>
            faceVertexColors[f][i] = matrix[c[2]][c[1]].color

C14_ZTicksSubdivideRange ==
    (minZ % Unit = 0 /\ maxZ % Unit = 0 /\ minZ < maxZ) =>
        /\ Len(zAxisValues) = 11
        /\ zAxisValues[1] = maxZ
        /\ zAxisValues[11] = minZ
        /\ \A i \in 1 .. 10 :
              (zAxisValues[i] - zAxisValues[i + 1]) * 10 = maxZ - minZ

====
